---- MODULE Spec2Model ----
(***************************************************************************)
(* BiggerNumbers backend (src/backend/main.py): the three request handlers *)
(* create_link_token, exchange_public_token and get_spending, the upstream *)
(* Plaid client they call, the wall clock get_spending reads, and the      *)
(* arithmetic get_spending does on the amounts (Python floats, that is     *)
(* IEEE 754 binary64, added left to right by sum() and rounded to two      *)
(* decimals by round()).                                                   *)
(***************************************************************************)
EXTENDS Integers, Sequences, FiniteSets

(***************************************************************************)
(* Natural numbers of any size, as sequences of limbs (digits to the base  *)
(* Radix), least significant limb first and no leading zero limb (zero is  *)
(* << >>).  TLC's integers are 32 bits wide; a binary64 significand has    *)
(* 53 bits.                                                                *)
(***************************************************************************)
Radix == 2 ^ 15

RECURSIVE Zeros(_)
Zeros(n) == IF n <= 0 THEN << >> ELSE <<0>> \o Zeros(n - 1)

RECURSIVE Trim(_)
Trim(a) ==
  IF a = << >> THEN << >>
  ELSE IF a[Len(a)] = 0 THEN Trim(SubSeq(a, 1, Len(a) - 1)) ELSE a

RECURSIVE LimbsOf(_)
LimbsOf(n) == IF n = 0 THEN << >> ELSE <<n % Radix>> \o LimbsOf(n \div Radix)

Limb(a, i) == IF i >= 1 /\ i <= Len(a) THEN a[i] ELSE 0

ShiftLimbs(a, k) == IF a = << >> THEN << >> ELSE Zeros(k) \o a

IsOdd(a) == a # << >> /\ a[1] % 2 = 1

RECURSIVE IntBitLen(_)
IntBitLen(n) == IF n = 0 THEN 0 ELSE 1 + IntBitLen(n \div 2)

LimbBits == IntBitLen(Radix - 1)

\* the number of bits of a
BitLen(a) ==
  IF a = << >> THEN 0 ELSE LimbBits * (Len(a) - 1) + IntBitLen(a[Len(a)])

RECURSIVE AddFrom(_, _, _, _)
AddFrom(a, b, i, carry) ==
  IF i > Len(a) /\ i > Len(b)
  THEN (IF carry = 1 THEN <<1>> ELSE << >>)
  ELSE LET s == Limb(a, i) + Limb(b, i) + carry
       IN  IF s >= Radix THEN <<s - Radix>> \o AddFrom(a, b, i + 1, 1)
           ELSE <<s>> \o AddFrom(a, b, i + 1, 0)

BAdd(a, b) == AddFrom(a, b, 1, 0)

\* a - b for a >= b
RECURSIVE SubFrom(_, _, _, _)
SubFrom(a, b, i, borrow) ==
  IF i > Len(a) THEN << >>
  ELSE LET s == Limb(a, i) - Limb(b, i) - borrow
       IN  IF s < 0 THEN <<s + Radix>> \o SubFrom(a, b, i + 1, 1)
           ELSE <<s>> \o SubFrom(a, b, i + 1, 0)

BSub(a, b) == Trim(SubFrom(a, b, 1, 0))

\* -1, 0, 1 as a < b, a = b, a > b
RECURSIVE CmpFrom(_, _, _)
CmpFrom(a, b, i) ==
  IF i = 0 THEN 0
  ELSE IF a[i] > b[i] THEN 1
  ELSE IF a[i] < b[i] THEN -1
  ELSE CmpFrom(a, b, i - 1)

BCmp(a, b) ==
  IF Len(a) > Len(b) THEN 1
  ELSE IF Len(a) < Len(b) THEN -1
  ELSE CmpFrom(a, b, Len(a))

\* <<quotient, remainder>> of a by the positive integer d, d <= Radix
RECURSIVE DivFrom(_, _, _, _)
DivFrom(a, d, i, rem) ==
  IF i = 0 THEN <<<< >>, rem>>
  ELSE LET r    == rem * Radix + a[i]
           rest == DivFrom(a, d, i - 1, r % d)
       IN  <<rest[1] \o <<r \div d>>, rest[2]>>

BDivSmall(a, d) ==
  LET qr == DivFrom(a, d, Len(a), 0) IN <<Trim(qr[1]), qr[2]>>

\* a times the natural number k, k <= Radix
RECURSIVE MulFrom(_, _, _, _)
MulFrom(a, k, i, carry) ==
  IF i > Len(a) THEN (IF carry = 0 THEN << >> ELSE <<carry>>)
  ELSE LET t == a[i] * k + carry
       IN  <<t % Radix>> \o MulFrom(a, k, i + 1, t \div Radix)

BMulSmall(a, k) == IF k = 0 THEN << >> ELSE MulFrom(a, k, 1, 0)

\* a * 2^k
BShl(a, k) == ShiftLimbs(BMulSmall(a, 2 ^ (k % LimbBits)), k \div LimbBits)

\* <<a \div 2^k, whether a bit was shifted out>>
BShr(a, k) ==
  LET drop == k \div LimbBits
      lost == \E i \in 1..drop : Limb(a, i) # 0
      qr   == BDivSmall(SubSeq(a, drop + 1, Len(a)), 2 ^ (k % LimbBits))
  IN  <<qr[1], lost \/ qr[2] # 0>>

(***************************************************************************)
(* Python's float: a finite binary64.  A value is sign * man * 2^exp with  *)
(* man a significand of exactly MantBits bits (its top bit 1), or zero.    *)
(* The amounts and totals of this program stay far from the exponent       *)
(* range's ends, so exp is an unbounded integer here.                      *)
(***************************************************************************)
MantBits == 53

FZero == [sign |-> 0, man |-> << >>, exp |-> 0]

\* a \div 2
Half(a) == BDivSmall(a, 2)[1]

\* the binary64 nearest to (s + a fraction in (0,1) if sticky) * 2^e, ties to
\* even; s is not zero, and has more than MantBits + 1 bits if sticky
RoundBits(s, sticky, e) ==
  LET d == BitLen(s) - MantBits
  IN  IF d <= 0 THEN [man |-> BShl(s, -d), exp |-> e + d]
      ELSE LET t     == BShr(s, d - 1)
               guard == IsOdd(t[1])
               high  == Half(t[1])
               up    == guard /\ (sticky \/ t[2] \/ IsOdd(high))
               h2    == IF up THEN BAdd(high, <<1>>) ELSE high
           IN  IF BitLen(h2) > MantBits
               THEN [man |-> Half(h2), exp |-> e + d + 1]
               ELSE [man |-> h2, exp |-> e + d]

MkFloat(sg, r) == [sign |-> sg, man |-> r.man, exp |-> r.exp]

\* x + y, correctly rounded (float.__add__): the exact sum of the two values
\* brought to the smaller exponent, then rounded
FAdd(x, y) ==
  IF x.sign = 0 THEN y
  ELSE IF y.sign = 0 THEN x
  ELSE LET lo    == IF x.exp < y.exp THEN x.exp ELSE y.exp
           xs    == BShl(x.man, x.exp - lo)
           ys    == BShl(y.man, y.exp - lo)
           c     == BCmp(xs, ys)
           big   == IF c >= 0 THEN xs ELSE ys
           small == IF c >= 0 THEN ys ELSE xs
           exact == IF x.sign = y.sign THEN BAdd(big, small) ELSE BSub(big, small)
       IN  IF exact = << >> THEN FZero
           ELSE MkFloat(IF c >= 0 THEN x.sign ELSE y.sign,
                        RoundBits(exact, FALSE, lo))

FNeg(x) == [x EXCEPT !.sign = -x.sign]
FAbs(x) == [x EXCEPT !.sign = x.sign * x.sign]

\* x - y, correctly rounded
FSub(x, y) == FAdd(x, FNeg(y))

\* -1, 0, 1 as x < y, x = y, x > y (the float comparisons)
FCmp(x, y) ==
  IF x.sign # y.sign THEN (IF x.sign > y.sign THEN 1 ELSE -1)
  ELSE IF x.sign = 0 THEN 0
  ELSE IF x.exp # y.exp THEN (IF x.exp > y.exp THEN x.sign ELSE -x.sign)
  ELSE x.sign * BCmp(x.man, y.man)

FGe(x, y) == FCmp(x, y) >= 0

\* the binary64 nearest to sg * n / d, n a limb sequence and d a positive
\* integer up to 1000: what reading the decimal numeral n/d gives
\* (float("10.505")).  The quotient is taken with 5 limbs (75 bits) after the
\* binary point, so it has more than MantBits + 1 bits.
FloatOfRatio(sg, n, d) ==
  IF n = << >> \/ sg = 0 THEN FZero
  ELSE LET qr == BDivSmall(ShiftLimbs(n, 5), d)
       IN  MkFloat(sg, RoundBits(qr[1], qr[2] # 0, -(5 * LimbBits)))

Abs(k) == IF k < 0 THEN -k ELSE k
Sgn(k) == IF k < 0 THEN -1 ELSE IF k > 0 THEN 1 ELSE 0

\* the float written as the decimal numeral k/1000, e.g. 10.505 is Milli(10505)
Milli(k) == FloatOfRatio(Sgn(k), LimbsOf(Abs(k)), 1000)
\* the float written as the decimal numeral k/100, e.g. 10.51 is Centi(1051)
Centi(k) == FloatOfRatio(Sgn(k), LimbsOf(Abs(k)), 100)

RECURSIVE Pow10(_)
Pow10(n) == IF n = 0 THEN 1 ELSE 10 * Pow10(n - 1)

\* |x| * 10^ndigits rounded to an integer, ties to even, in exact arithmetic
ScaledDigits(x, ndigits) ==
  LET scaled == BMulSmall(x.man, Pow10(ndigits))
      f      == -x.exp
  IN  IF f <= 0 THEN BShl(scaled, -f)
      ELSE LET t     == BShr(scaled, f - 1)
               whole == Half(t[1])
               up    == IsOdd(t[1]) /\ (t[2] \/ IsOdd(whole))
           IN  IF up THEN BAdd(whole, <<1>>) ELSE whole

\* round(x, ndigits) of a float: the decimal numeral with ndigits digits after
\* the point that is nearest to x's exact value (ties to even), read back as a
\* float
Round(x, ndigits) ==
  IF x.sign = 0 THEN FZero
  ELSE FloatOfRatio(x.sign, ScaledDigits(x, ndigits), Pow10(ndigits))

(***************************************************************************)
(* Calendar dates (datetime.date) are their proleptic Gregorian ordinals,   *)
(* date.toordinal(): date - timedelta(days=n) is the ordinal minus n, and   *)
(* dates compare as their ordinals do.                                      *)
(***************************************************************************)
IsLeap(y) == y % 4 = 0 /\ (y % 100 # 0 \/ y % 400 = 0)

DaysInMonth(y, m) ==
  IF m = 2 THEN (IF IsLeap(y) THEN 29 ELSE 28)
  ELSE IF m \in {4, 6, 9, 11} THEN 30 ELSE 31

RECURSIVE DaysBeforeMonth(_, _)
DaysBeforeMonth(y, m) ==
  IF m = 1 THEN 0 ELSE DaysBeforeMonth(y, m - 1) + DaysInMonth(y, m - 1)

DaysBeforeYear(y) ==
  (y - 1) * 365 + (y - 1) \div 4 - (y - 1) \div 100 + (y - 1) \div 400

Date(y, m, d) == DaysBeforeYear(y) + DaysBeforeMonth(y, m) + d

(***************************************************************************)
(* The inputs.  A transaction of the upstream's reply is a record of an    *)
(* amount and a date; NoAmount and NoDate stand for a field that is absent  *)
(* or None (reading t['amount'], or comparing it, raises).                 *)
(***************************************************************************)
NoAmount == [none |-> TRUE]
\* no date has the ordinal 0: date.min is the ordinal 1
NoDate == Date(1, 1, 1) - 1

Txn(milli, date) == [amount |-> Milli(milli), date |-> date]

\* the date the clock shows when the first request arrives
Epoch == Date(2024, 6, 15)

\* how many times midnight passes before the last request is answered
MaxTicks == 1
\* the requests served concurrently
NumRequests == 2
\* the longest list of transactions the upstream returns (the lists of
\* ExampleList aside)
MaxTxns == 2

Requests == 1..NumRequests

AccessTokens == {"access-1", "access-2"}

\* what client.transactions_get does: it returns a response holding a list
\* of transactions, or raises
Returned(transactions) == [ok |-> TRUE, transactions |-> transactions]
UpstreamError == [ok |-> FALSE, transactions |-> << >>]

\* the transactions the upstream's lists are made of: spending on each side
\* of the daily, weekly and monthly boundaries and one dated after every
\* reading of the clock, a refund, a zero amount, and transactions that lack
\* their amount or their date
PoolDates == {Epoch - 31, Epoch - 8, Epoch - 7, Epoch - 2, Epoch - 1, Epoch}

TxnPool ==
  {Txn(10505, d) : d \in PoolDates}
    \cup {Txn(20000, d) : d \in {Epoch - 7, Epoch - 1}}
    \cup {Txn(10505, Epoch + MaxTicks + 1)}
    \cup {Txn(-5000, Epoch - 1), Txn(0, Epoch)}
    \cup {[amount |-> NoAmount, date |-> Epoch],
          [amount |-> Milli(20000), date |-> NoDate],
          [amount |-> Milli(-5000), date |-> NoDate]}

RECURSIVE ListsUpTo(_, _)
ListsUpTo(S, n) ==
  IF n = 0 THEN {<< >>}
  ELSE LET shorter == ListsUpTo(S, n - 1)
       IN  shorter \cup {Append(l, t) : l \in shorter, t \in S}

\* the transactions of the worked example: 10.505 today, 20.00 five days ago,
\* a refund of 5.00 yesterday, 100.00 on 2024-05-20
ExampleList ==
  << Txn(10505, Date(2024, 6, 15)), Txn(20000, Date(2024, 6, 10)),
     Txn(-5000, Date(2024, 6, 14)), Txn(100000, Date(2024, 5, 20)) >>

\* what the upstream may answer a transactions_get with: an error, or a list
AggReplies ==
  {UpstreamError}
    \cup {Returned(l) : l \in ListsUpTo(TxnPool, MaxTxns) \cup {ExampleList}}

ConcReplies ==
  {UpstreamError}
    \cup {Returned(l) : l \in {<<Txn(10505, Epoch)>>,
                               <<[amount |-> NoAmount, date |-> Epoch]>>}}

(***************************************************************************)
(* get_spending's computation, lines 105-132.                              *)
(***************************************************************************)
\* a filter that keeps every non-zero amount (t['amount'] != 0)
IsSpendingNonZero(t) == FCmp(t.amount, FZero) # 0

\* t['amount'] > 0
IsSpending(t) == FCmp(t.amount, FZero) > 0

\* spending_transactions = [t for t in transactions if t['amount'] > 0]
SpendingTransactions(transactions) == SelectSeq(transactions, IsSpending)

Yesterday(today) == today - 1
WeekAgo(today) == today - 7

\* sum(t['amount'] for t in txns) as CPython up to 3.11 computes it: the
\* additions are made from left to right, starting from 0
RECURSIVE SumLeftToRight(_)
SumLeftToRight(txns) ==
  IF txns = << >> THEN FZero
  ELSE FAdd(SumLeftToRight(SubSeq(txns, 1, Len(txns) - 1)),
            txns[Len(txns)].amount)

\* and as CPython from 3.12 computes it (Neumaier's compensated summation):
\* the running sum f and the running compensation c
RECURSIVE Neumaier(_)
Neumaier(txns) ==
  IF txns = << >> THEN [f |-> FZero, c |-> FZero]
  ELSE LET prev  == Neumaier(SubSeq(txns, 1, Len(txns) - 1))
           x     == txns[Len(txns)].amount
           t     == FAdd(prev.f, x)
           fBig  == FGe(FAbs(prev.f), FAbs(x))
           big   == IF fBig THEN prev.f ELSE x
           small == IF fBig THEN x ELSE prev.f
       IN  [f |-> t, c |-> FAdd(prev.c, FAdd(FSub(big, t), small))]

SumCompensated(txns) ==
  LET acc == Neumaier(txns)
  IN  IF acc.c.sign # 0 THEN FAdd(acc.f, acc.c) ELSE acc.f

\* how the interpreter that runs the program adds floats in sum(): it is
\* one or the other for the life of the process
VARIABLE py_sum

SumImpls == {"left_to_right", "compensated"}

Sum(txns) ==
  IF py_sum = "compensated" THEN SumCompensated(txns) ELSE SumLeftToRight(txns)

\* daily windows with the comparison turned round, and with the boundary
\* day left out
DailyTxnsBefore(spending, today) ==
  LET Old(t) == t.date <= Yesterday(today) IN SelectSeq(spending, Old)

DailyTxnsStrict(spending, today) ==
  LET Recent(t) == t.date > Yesterday(today) IN SelectSeq(spending, Recent)

\* a weekly window with the boundary day left out
WeeklyTxnsStrict(spending, today) ==
  LET Recent(t) == t.date > WeekAgo(today) IN SelectSeq(spending, Recent)

\* a monthly total that bounds its own window to the last 30 days
MonthlyTxnsBounded(spending, today) ==
  LET Recent(t) == t.date >= today - 30 IN SelectSeq(spending, Recent)

DailyTxns(spending, today) ==
  LET Recent(t) == t.date >= Yesterday(today) IN SelectSeq(spending, Recent)

WeeklyTxns(spending, today) ==
  LET Recent(t) == t.date >= WeekAgo(today) IN SelectSeq(spending, Recent)

MonthlyTxns(spending, today) == spending

\* whether the computation raises: an amount that cannot be compared with 0
\* (line 108), or a date of a spending transaction that cannot be compared
\* with yesterday (line 118)
Raises(transactions) ==
  \/ \E i \in 1..Len(transactions) : transactions[i].amount = NoAmount
  \/ \E i \in 1..Len(transactions) :
       /\ transactions[i].amount # NoAmount
       /\ IsSpending(transactions[i])
       /\ transactions[i].date = NoDate

\* round(sum(t['amount'] for t in txns), 2)
Total(txns) == Round(Sum(txns), 2)

\* round(daily, 2), round(weekly, 2), round(monthly, 2) of lines 129-131
DailyTotal(transactions, today) ==
  Total(DailyTxns(SpendingTransactions(transactions), today))

WeeklyTotal(transactions, today) ==
  Total(WeeklyTxns(SpendingTransactions(transactions), today))

MonthlyTotal(transactions, today) ==
  Total(MonthlyTxns(SpendingTransactions(transactions), today))

\* SpendingResponse(daily=round(daily, 2), weekly=..., monthly=...)
SpendingSummary(transactions, today) ==
  [daily   |-> DailyTotal(transactions, today),
   weekly  |-> WeeklyTotal(transactions, today),
   monthly |-> MonthlyTotal(transactions, today)]

(***************************************************************************)
(* The state.  Every request r has its handler's local variables (each a   *)
(* function of r: a coroutine's locals are its own), the record of what    *)
(* the upstream saw and answered for it, and the HTTP response it got.     *)
(***************************************************************************)
VARIABLES
  clock,         \* datetime.now().date(), the date the wall clock shows
  pc,            \* r -> "idle", "built" (line 100), "waiting" (line 102), "done"
  route,         \* r -> the endpoint the request is for, "" before it arrives
  access_token,  \* r -> the path parameter of get_spending
  request,       \* r -> the TransactionsGetRequest built at lines 96-100
  served,        \* r -> the request the upstream received and its answer
  fetches,       \* r -> how many transactions_get calls were made for r
  transactions,  \* r -> response['transactions'], line 103
  today,         \* r -> today, line 112
  response       \* r -> the HTTP response sent

vars ==
  <<py_sum, clock, pc, route, access_token, request, served, fetches, transactions,
    today, response>>

NoRequest == [access_token |-> "", start_date |-> NoDate, end_date |-> NoDate]
NoBody == [daily |-> FZero, weekly |-> FZero, monthly |-> FZero]
NoResponse == [status |-> 0, error |-> "", body |-> NoBody]

Init ==
  /\ py_sum \in SumImpls
  /\ clock = Epoch
  /\ pc = [r \in Requests |-> "idle"]
  /\ route = [r \in Requests |-> ""]
  /\ access_token = [r \in Requests |-> ""]
  /\ request = [r \in Requests |-> NoRequest]
  /\ served = [r \in Requests |-> [request |-> NoRequest, reply |-> UpstreamError]]
  /\ fetches = [r \in Requests |-> 0]
  /\ transactions = [r \in Requests |-> << >>]
  /\ today = [r \in Requests |-> NoDate]
  /\ response = [r \in Requests |-> NoResponse]

\* a variable kept at module level, one for all the requests, takes the value v
SetShared(f, r, v) == [q \in DOMAIN f |-> v]

\* a local variable of request r's handler takes the value v
SetLocal(f, r, v) == [f EXCEPT ![r] = v]

\* return <body>: 200
Ok(body) == [status |-> 200, error |-> "", body |-> body]

\* a handler that catches the upstream's exceptions only: anything else
\* raised in the try block leaves the handler and is answered 500
HandlerErrorNarrow(kind) ==
  [status |-> IF kind = "UpstreamFailure" THEN 400 ELSE 500,
   error |-> kind, body |-> NoBody]

\* except Exception as e: raise HTTPException(status_code=400, ...)
\* (lines 71-72, 85-86, 134-135); kind names what was raised in the try block
HandlerError(kind) == [status |-> 400, error |-> kind, body |-> NoBody]

\* the request body does not fit PublicTokenRequest: FastAPI answers 422
\* before the handler is called (no exception handler is installed for it)
BodyRejected == [status |-> 422, error |-> "ValidationFailure", body |-> NoBody]

\* lines 105-135 on the list the upstream returned: the totals, or the error
\* response if computing them raises
SpendingResult(txns, day) ==
  IF Raises(txns) THEN HandlerError("ComputationFailure")
  ELSE Ok(SpendingSummary(txns, day))

\* midnight passes while a request is being served or yet to arrive
Tick ==
  /\ clock < Epoch + MaxTicks
  /\ \E r \in Requests : pc[r] # "done"
  /\ clock' = clock + 1
  /\ UNCHANGED <<py_sum, pc, route, access_token, request, served, fetches,
                 transactions, today, response>>

\* POST /create_link_token, lines 56-72: upstream_ok is whether
\* client.link_token_create returns
CreateLinkToken(r, upstream_ok) ==
  /\ pc[r] = "idle"
  /\ pc' = [pc EXCEPT ![r] = "done"]
  /\ route' = [route EXCEPT ![r] = "create_link_token"]
  /\ response' = [response EXCEPT ![r] =
       IF upstream_ok THEN Ok(NoBody) ELSE HandlerError("UpstreamFailure")]
  /\ UNCHANGED <<py_sum, clock, access_token, request, served, fetches, transactions,
                 today>>

\* POST /exchange_public_token, lines 74-86: body_ok is whether the body holds
\* a public_token string, upstream_ok whether
\* client.item_public_token_exchange returns
ExchangePublicToken(r, body_ok, upstream_ok) ==
  /\ pc[r] = "idle"
  /\ pc' = [pc EXCEPT ![r] = "done"]
  /\ route' = [route EXCEPT ![r] = "exchange_public_token"]
  /\ response' = [response EXCEPT ![r] =
       IF ~body_ok THEN BodyRejected
       ELSE IF upstream_ok THEN Ok(NoBody)
       ELSE HandlerError("UpstreamFailure")]
  /\ UNCHANGED <<py_sum, clock, access_token, request, served, fetches, transactions,
                 today>>

\* GET /spending/{access_token}, lines 93-100: the fetch window is read off
\* the clock and the upstream request is built
SpendingBegin(r, token) ==
  /\ pc[r] = "idle"
  /\ pc' = [pc EXCEPT ![r] = "built"]
  /\ route' = [route EXCEPT ![r] = "spending"]
  /\ access_token' = [access_token EXCEPT ![r] = token]
  /\ LET end_date   == clock
         start_date == end_date - 30
     IN  request' = SetLocal(request, r,
           [access_token |-> token, start_date |-> start_date,
            end_date |-> end_date])
  /\ UNCHANGED <<py_sum, clock, served, fetches, transactions, today, response>>

\* line 102, client.transactions_get(request): the upstream receives the
\* request and decides its answer
SpendingFetch(r, reply) ==
  /\ pc[r] = "built"
  /\ pc' = [pc EXCEPT ![r] = "waiting"]
  /\ served' = [served EXCEPT ![r] = [request |-> request[r], reply |-> reply]]
  /\ fetches' = [fetches EXCEPT ![r] = @ + 1]
  /\ UNCHANGED <<py_sum, clock, route, access_token, request, transactions, today,
                 response>>

\* lines 102-135: the call returns or raises, the totals are computed and the
\* response is sent
SpendingFinish(r) ==
  /\ pc[r] = "waiting"
  /\ pc' = [pc EXCEPT ![r] = "done"]
  /\ IF ~served[r].reply.ok
     THEN /\ response' = [response EXCEPT ![r] = HandlerError("UpstreamFailure")]
          /\ UNCHANGED <<transactions, today>>
     ELSE /\ transactions' = SetLocal(transactions, r, served[r].reply.transactions)
          /\ IF \E i \in 1..Len(transactions'[r]) :
                  transactions'[r][i].amount = NoAmount
             THEN UNCHANGED today  \* line 108 raises, before line 112
             ELSE today' = SetLocal(today, r, clock)
          /\ response' = [response EXCEPT ![r] =
               SpendingResult(transactions'[r], clock)]
  /\ UNCHANGED <<py_sum, clock, route, access_token, request, served, fetches>>

\* the requests of R are served, get_spending being called with the tokens
\* of Tokens and the upstream answering transactions_get from Replies
Step(R, Tokens, Replies) ==
  \/ Tick
  \/ \E r \in R, upstream_ok \in BOOLEAN : CreateLinkToken(r, upstream_ok)
  \/ \E r \in R, body_ok \in BOOLEAN, upstream_ok \in BOOLEAN :
       ExchangePublicToken(r, body_ok, upstream_ok)
  \/ \E r \in R, token \in Tokens : SpendingBegin(r, token)
  \/ \E r \in R, reply \in Replies : SpendingFetch(r, reply)
  \/ \E r \in R : SpendingFinish(r)

\* several requests at once
Next == Step(Requests, AccessTokens, ConcReplies)
Spec == Init /\ [][Next]_vars

\* one request, over all the transaction lists of AggReplies
NextAgg == Step({1}, {"access-1"}, AggReplies)
SpecAgg == Init /\ [][NextAgg]_vars

(***************************************************************************)
(* The properties.                                                         *)
(***************************************************************************)
\* request r was answered with a summary
Answered(r) ==
  pc[r] = "done" /\ route[r] = "spending" /\ response[r].status = 200

Positive(t) == t.amount # NoAmount /\ FCmp(t.amount, FZero) > 0

\* the list l with every transaction dated from dated to instead
Redate(l, from, to) ==
  [i \in 1..Len(l) |->
     IF l[i].date = from THEN [l[i] EXCEPT !.date = to] ELSE l[i]]

\* the list l without the transactions dated d
Drop(l, d) == LET Keep(t) == t.date # d IN SelectSeq(l, Keep)

\* the list l without the transactions of amount <= 0
RemoveNonPositive(l) ==
  LET Keep(t) == t.amount = NoAmount \/ FCmp(t.amount, FZero) > 0
  IN  SelectSeq(l, Keep)

HasPositiveDated(l, d) ==
  \E i \in 1..Len(l) : Positive(l[i]) /\ l[i].date = d

\* C1: whenever get_spending answers for a non-empty list whose amounts are
\* all positive, the rounded totals satisfy monthly >= weekly >= daily.
C1_MonthlyGeWeeklyGeDaily ==
  \A r \in Requests :
    ( /\ Answered(r)
      /\ transactions[r] # << >>
      /\ \A i \in 1..Len(transactions[r]) : Positive(transactions[r][i]) )
    => /\ FGe(response[r].body.monthly, response[r].body.weekly)
       /\ FGe(response[r].body.weekly, response[r].body.daily)

C1_Witness ==
  \E r \in Requests :
    /\ Answered(r)
    /\ Len(transactions[r]) >= 2
    /\ \A i \in 1..Len(transactions[r]) : Positive(transactions[r][i])
    /\ FCmp(response[r].body.monthly, response[r].body.weekly) > 0
    /\ FCmp(response[r].body.weekly, response[r].body.daily) > 0

\* C2: the response get_spending gives for a list is the response it gives
\* for that list with the transactions of amount <= 0 removed.
C2_NonPositiveIgnored ==
  \A r \in Requests :
    (pc[r] = "done" /\ route[r] = "spending" /\ served[r].reply.ok)
    => response[r] =
         SpendingResult(RemoveNonPositive(served[r].reply.transactions),
                        today[r])

C2_Witness ==
  \E r \in Requests :
    /\ Answered(r)
    /\ \E i, j \in 1..Len(transactions[r]) :
         /\ Positive(transactions[r][i])
         /\ FCmp(transactions[r][j].amount, FZero) < 0
    /\ response[r].body.monthly # FZero

\* C3: a positive transaction dated 7 days before today is counted in weekly
\* (as it would be were it dated today); one dated 8 days before today is not
\* (weekly is what it would be without it).
C3_WeeklyBoundary ==
  \A r \in Requests :
    Answered(r)
    => /\ response[r].body.weekly =
            WeeklyTotal(Redate(transactions[r], today[r] - 7, today[r]),
                        today[r])
       /\ response[r].body.weekly =
            WeeklyTotal(Drop(transactions[r], today[r] - 8), today[r])

C3_Witness ==
  \E r \in Requests :
    /\ Answered(r)
    /\ HasPositiveDated(transactions[r], today[r] - 7)
    /\ HasPositiveDated(transactions[r], today[r] - 8)
    /\ response[r].body.weekly # FZero
    /\ response[r].body.weekly # response[r].body.monthly

\* C4: a positive transaction dated 1 day before today is counted in daily;
\* one dated 2 days before today is not counted in daily, and is counted in
\* weekly and in monthly.
C4_DailyBoundary ==
  \A r \in Requests :
    Answered(r)
    => LET l       == transactions[r]
           dayKept == Redate(l, today[r] - 1, today[r])
           twoGone == Drop(l, today[r] - 2)
           twoKept == Redate(l, today[r] - 2, today[r])
       IN  /\ response[r].body.daily = DailyTotal(dayKept, today[r])
           /\ response[r].body.daily = DailyTotal(twoGone, today[r])
           /\ response[r].body.weekly = WeeklyTotal(twoKept, today[r])
           /\ response[r].body.monthly = MonthlyTotal(twoKept, today[r])

C4_Witness ==
  \E r \in Requests :
    /\ Answered(r)
    /\ HasPositiveDated(transactions[r], today[r] - 1)
    /\ HasPositiveDated(transactions[r], today[r] - 2)
    /\ response[r].body.daily # FZero
    /\ response[r].body.daily # response[r].body.weekly

\* C5: with today 2024-06-15 and the transactions of the worked example, the
\* summary is daily 10.51, weekly 30.51, monthly 130.51.
C5_ExampleTotals ==
  \A r \in Requests :
    (Answered(r) /\ transactions[r] = ExampleList
       /\ today[r] = Date(2024, 6, 15))
    => response[r].body =
         [daily |-> Centi(1051), weekly |-> Centi(3051),
          monthly |-> Centi(13051)]

\* C7: when a transaction of the returned list lacks its amount or its date,
\* get_spending answers with the error response.
C7_MalformedRejected ==
  \A r \in Requests :
    ( /\ pc[r] = "done" /\ route[r] = "spending" /\ served[r].reply.ok
      /\ \E i \in 1..Len(served[r].reply.transactions) :
           \/ served[r].reply.transactions[i].amount = NoAmount
           \/ served[r].reply.transactions[i].date = NoDate )
    => response[r].status = 400

\* C9: monthly is the rounded sum of all the positive amounts of the returned
\* list, whatever their dates.
C9_MonthlyUnbounded ==
  \A r \in Requests :
    Answered(r)
    => response[r].body.monthly =
         Total(SelectSeq(transactions[r], Positive))

C9_Witness ==
  \E r \in Requests :
    /\ Answered(r)
    /\ \E i, j \in 1..Len(transactions[r]) :
         /\ Positive(transactions[r][i])
         /\ transactions[r][i].date < today[r] - 30
         /\ Positive(transactions[r][j])
         /\ transactions[r][j].date > today[r]
    /\ response[r].body.monthly # FZero
    /\ response[r].body.weekly # response[r].body.monthly

C8_RequestsIndependent ==
  \A r \in Requests :
    route[r] = "spending"
    => /\ fetches[r] = (IF pc[r] \in {"waiting", "done"} THEN 1 ELSE 0)
       /\ pc[r] \in {"waiting", "done"}
            => /\ served[r].request.access_token = access_token[r]
               /\ served[r].request.start_date = served[r].request.end_date - 30
               /\ served[r].request = request[r]
       /\ pc[r] = "done"
            => /\ response[r] =
                    (IF served[r].reply.ok
                     THEN SpendingResult(served[r].reply.transactions, today[r])
                     ELSE HandlerError("UpstreamFailure"))
               /\ Answered(r) => transactions[r] = served[r].reply.transactions

C8_Witness ==
  \E r1, r2 \in Requests :
    /\ r1 # r2
    /\ access_token[r1] # access_token[r2]
    /\ Answered(r1)
    /\ response[r1].body.monthly # FZero
    /\ pc[r2] = "done" /\ route[r2] = "spending"
    /\ response[r2].status = 400
    /\ today[r1] # request[r2].end_date

\* C10: in a request that computed its totals, today (line 112) is the end
\* date of the fetch window (line 93).
C10_TodayIsEndDate ==
  \A r \in Requests :
    (pc[r] = "done" /\ route[r] = "spending" /\ today[r] # NoDate)
    => today[r] = request[r].end_date

====
